---- MODULE Spec2Model ----
(***************************************************************************)
(* The publish/subscribe engine of kvalv/prototypes, fullest variant:      *)
(* New / Subscribe / Unsubscribe / Publish / Close / SubscriberCount.      *)
(* One publisher, client goroutines calling its methods, one delivery      *)
(* goroutine per subscriber (subscriber.listen) and the deregistration     *)
(* goroutine(s) of the publisher (publisher.listen).                       *)
(*                                                                         *)
(* A subscriber is named by its creation number; its channel s.ev is made  *)
(* once per subscriber, so the channel identity compared in                *)
(* publisher.listen (sub.ev == c) is the subscriber's number.              *)
(* A published value is named by the number of the Publish call.           *)
(*                                                                         *)
(* Unsynchronised reads (p.closed in Publish, p.unsubs in Subscribe, in    *)
(* the closer and in publisher.listen) are steps of their own, so that a   *)
(* read racing with a write sees the old or the new value depending on     *)
(* the interleaving.                                                       *)
(***************************************************************************)
EXTENDS Integers, Sequences, FiniteSets, TLC

\* ------------------------------------------------------------------ bounds
NThreads == 2      \* client goroutines
MaxSubs == 2       \* Subscribe calls
MaxPub == 2        \* Publish calls
MaxCap == 2        \* largest ChannelCapacity(n) a client asks for
MaxCalls == 4      \* calls of the clients, all methods together

\* ------------------------------------------------------- program constants
UnsubsCap == 5     \* make(chan chan T, 5)

Threads == 1..NThreads

VARIABLES
    subs,       \* p.subs: sequence of subscriber numbers
    subsNil,    \* p.subs == nil (an emptied slice is not nil)
    unsubs,     \* p.unsubs: 0 is nil, else the number of a channel in chans
    closed,     \* p.closed
    mu,         \* p.mu: 0 is unlocked, else the client goroutine holding it
    chans,      \* the channels made for p.unsubs: [buf, closed]
    loops,      \* the publisher.listen goroutines: [pc, ch, c]
    sub,        \* the subscribers: fields and delivery goroutine
    th,         \* the client goroutines: position and locals of the call
    panicked,   \* a goroutine panicked: the process is gone
    pubs,       \* history: one record per Publish call
    closeRet,   \* history: some Close call has returned
    calls,      \* history: the number of calls the clients have made
    last        \* what the call that returned in the latest step returned

vars == <<subs, subsNil, unsubs, closed, mu, chans, loops, sub, th, panicked,
          pubs, closeRet, calls, last>>

\* what a call returned: the method, the error of Publish, the count of
\* SubscriberCount
Ret(op, err, n) == [op |-> op, err |-> err, n |-> n]

\* no call returned in the latest step
NoRet == Ret("none", "nil", 0)

\* a client goroutine between two calls.  live, unsub and after are what a
\* Publish call found when it started: the subscriptions subscribed and not
\* unsubscribed, those whose Unsubscribe had returned, and whether a Close
\* had returned.
Idle == [pc |-> "idle", s |-> 0, v |-> 0, i |-> 0,
         live |-> {}, unsub |-> {}, after |-> FALSE]

\* New: &publisher[T]{}
New ==
    /\ subs = <<>>
    /\ subsNil = TRUE
    /\ unsubs = 0
    /\ closed = FALSE
    /\ mu = 0
    /\ chans = <<>>
    /\ loops = <<>>
    /\ sub = <<>>
    /\ th = [t \in Threads |-> Idle]
    /\ panicked = FALSE
    /\ pubs = <<>>
    /\ closeRet = FALSE
    /\ calls = 0
    /\ last = NoRet

Init == New

\* ----------------------------------------------------------------- helpers
Range(f) == {f[i] : i \in DOMAIN f}

\* p.listening()
listening == unsubs # 0

\* the subscriptions a client holds a handle of: Subscribe has returned
Handles == {s \in DOMAIN sub : sub[s].reg}

\* the first index of subs whose subscriber's channel is c, 0 if none
FirstMatch(ss, c) ==
    IF \E i \in DOMAIN ss : ss[i] = c
    THEN CHOOSE i \in DOMAIN ss : ss[i] = c /\ \A j \in 1..(i - 1) : ss[j] # c
    ELSE 0

\* a removal that drops the tail as well: p.subs = p.subs[:i]
RemoveAtTruncate(ss, i) == SubSeq(ss, 1, i - 1)

\* a removal of the last subscriber instead of the i-th:
\* p.subs = p.subs[:len(p.subs)-1]
RemoveAtLast(ss, i) == SubSeq(ss, 1, Len(ss) - 1)

\* append(p.subs[:i], p.subs[i+1:]...)
RemoveAt(ss, i) == SubSeq(ss, 1, i - 1) \o SubSeq(ss, i + 1, Len(ss))

\* a scan that finds the subscriber and leaves p.subs as it is
RemoveFirstKeep(ss, c) == ss

\* the scan of publisher.listen for one received c
RemoveFirst(ss, c) ==
    IF FirstMatch(ss, c) = 0 THEN ss ELSE RemoveAt(ss, FirstMatch(ss, c))

\* ch <- x on a buffered channel
ChanPush(buf, x) == Append(buf, x)

\* ------------------------------------------------------------- Subscribe
\* a channel made one slot larger than asked for: make(chan T, n+1)
SubscribeOneMore(t, n) ==
    /\ ~panicked
    /\ calls < MaxCalls
    /\ calls' = calls + 1
    /\ last' = NoRet
    /\ th[t].pc = "idle"
    /\ Len(sub) < MaxSubs
    /\ sub' = Append(sub, [opt |-> n, cap |-> n + 1, ev |-> <<>>,
                           closed |-> FALSE, mu |-> 0,
                           worker |-> IF listening THEN 0 ELSE -1,
                           got |-> <<>>, sent |-> <<>>, reg |-> FALSE,
                           reqs |-> 0, removed |-> 0, uret |-> FALSE,
                           again |-> FALSE])
    /\ th' = [th EXCEPT ![t] = [Idle EXCEPT
                 !.pc = IF listening THEN "sub_lock" ELSE "sub_alloc",
                 !.s = Len(sub) + 1]]
    /\ UNCHANGED <<subs, subsNil, unsubs, closed, mu, chans, loops, panicked,
                   pubs, closeRet>>

\* lines 73-82, and 87-98 when the publisher is listening already
Subscribe(t, n) ==
    /\ ~panicked
    /\ calls < MaxCalls
    /\ calls' = calls + 1
    /\ last' = NoRet
    /\ th[t].pc = "idle"
    /\ Len(sub) < MaxSubs
    /\ sub' = Append(sub, [opt |-> n, cap |-> n, ev |-> <<>>,
                           closed |-> FALSE, mu |-> 0,
                           worker |-> IF listening THEN 0 ELSE -1,
                           got |-> <<>>, sent |-> <<>>, reg |-> FALSE,
                           reqs |-> 0, removed |-> 0, uret |-> FALSE,
                           again |-> FALSE])
    /\ th' = [th EXCEPT ![t] = [Idle EXCEPT
                 !.pc = IF listening THEN "sub_lock" ELSE "sub_alloc",
                 !.s = Len(sub) + 1]]
    /\ UNCHANGED <<subs, subsNil, unsubs, closed, mu, chans, loops, panicked,
                   pubs, closeRet>>

\* lines 84-98: p.unsubs = make(chan chan T, 5); go p.listen(); go s.listen()
SubscribeListen(t) ==
    /\ ~panicked
    /\ UNCHANGED calls
    /\ last' = NoRet
    /\ th[t].pc = "sub_alloc"
    /\ chans' = Append(chans, [buf |-> <<>>, closed |-> FALSE])
    /\ unsubs' = Len(chans) + 1
    /\ loops' = Append(loops, [pc |-> "start", ch |-> 0, c |-> 0])
    /\ sub' = [sub EXCEPT ![th[t].s].worker = 0]
    /\ th' = [th EXCEPT ![t].pc = "sub_lock"]
    /\ UNCHANGED <<subs, subsNil, closed, mu, panicked, pubs, closeRet>>

\* a subscription registered twice
SubscribeAppendTwice(t) ==
    /\ ~panicked
    /\ UNCHANGED calls
    /\ last' = NoRet
    /\ th[t].pc = "sub_lock"
    /\ mu = 0
    /\ subs' = Append(Append(subs, th[t].s), th[t].s)
    /\ subsNil' = FALSE
    /\ sub' = [sub EXCEPT ![th[t].s].reg = TRUE]
    /\ th' = [th EXCEPT ![t] = Idle]
    /\ UNCHANGED <<unsubs, closed, mu, chans, loops, panicked, pubs, closeRet>>

\* lines 99-102: p.mu.Lock(); p.subs = append(p.subs, &s); return &s
SubscribeAppend(t) ==
    /\ ~panicked
    /\ UNCHANGED calls
    /\ last' = NoRet
    /\ th[t].pc = "sub_lock"
    /\ mu = 0
    /\ subs' = Append(subs, th[t].s)
    /\ subsNil' = FALSE
    /\ sub' = [sub EXCEPT ![th[t].s].reg = TRUE]
    /\ th' = [th EXCEPT ![t] = Idle]
    /\ UNCHANGED <<unsubs, closed, mu, chans, loops, panicked, pubs, closeRet>>

\* ------------------------------------------------------ subscriber.listen
\* for e := range s.ev, on a buffered channel: take the oldest value
subscriberRecv(s) ==
    /\ ~panicked
    /\ UNCHANGED calls
    /\ last' = NoRet
    /\ sub[s].worker = 0
    /\ sub[s].ev # <<>>
    /\ sub' = [sub EXCEPT ![s].worker = Head(sub[s].ev), ![s].ev = Tail(sub[s].ev)]
    /\ UNCHANGED <<subs, subsNil, unsubs, closed, mu, chans, loops, th, panicked,
                   pubs, closeRet>>

\* s.handler(e)
subscriberHandle(s) ==
    /\ ~panicked
    /\ UNCHANGED calls
    /\ last' = NoRet
    /\ sub[s].worker > 0
    /\ sub' = [sub EXCEPT ![s].got = Append(sub[s].got, sub[s].worker),
                          ![s].worker = 0]
    /\ UNCHANGED <<subs, subsNil, unsubs, closed, mu, chans, loops, th, panicked,
                   pubs, closeRet>>

\* ------------------------------------------------------- publisher.listen
\* the goroutine starts and evaluates the range expression p.unsubs
listenStart(k) ==
    /\ ~panicked
    /\ UNCHANGED calls
    /\ last' = NoRet
    /\ loops[k].pc = "start"
    /\ loops' = [loops EXCEPT ![k].pc = "recv", ![k].ch = unsubs]
    /\ UNCHANGED <<subs, subsNil, unsubs, closed, mu, chans, sub, th, panicked,
                   pubs, closeRet>>

\* c := <-p.unsubs
listenRecv(k) ==
    /\ ~panicked
    /\ UNCHANGED calls
    /\ last' = NoRet
    /\ loops[k].pc = "recv"
    /\ chans[loops[k].ch].buf # <<>>
    /\ loops' = [loops EXCEPT ![k].pc = "lock",
                              ![k].c = Head(chans[loops[k].ch].buf)]
    /\ chans' = [chans EXCEPT ![loops[k].ch].buf = Tail(chans[loops[k].ch].buf)]
    /\ UNCHANGED <<subs, subsNil, unsubs, closed, mu, sub, th, panicked,
                   pubs, closeRet>>

\* lines 47-54: under p.mu, remove the first subscriber whose channel is c
listenRemove(k) ==
    /\ ~panicked
    /\ UNCHANGED calls
    /\ last' = NoRet
    /\ loops[k].pc = "lock"
    /\ mu = 0
    /\ subs' = RemoveFirst(subs, loops[k].c)
    /\ sub' = IF FirstMatch(subs, loops[k].c) = 0 THEN sub
              ELSE [sub EXCEPT ![loops[k].c].removed = sub[loops[k].c].removed + 1]
    /\ loops' = [loops EXCEPT ![k].pc = "recv", ![k].c = 0]
    /\ UNCHANGED <<subsNil, unsubs, closed, mu, chans, th, panicked, pubs, closeRet>>

\* the range ends: the channel is closed and drained
listenExit(k) ==
    /\ ~panicked
    /\ UNCHANGED calls
    /\ last' = NoRet
    /\ loops[k].pc = "recv"
    /\ chans[loops[k].ch].buf = <<>>
    /\ chans[loops[k].ch].closed
    /\ loops' = [loops EXCEPT ![k].pc = "done"]
    /\ UNCHANGED <<subs, subsNil, unsubs, closed, mu, chans, sub, th, panicked,
                   pubs, closeRet>>

\* ----------------------------------------------------------- Unsubscribe
\* a closer without the test of s.closed
UnsubscribeUnguarded(t, s) ==
    /\ ~panicked
    /\ calls < MaxCalls
    /\ calls' = calls + 1
    /\ last' = NoRet
    /\ th[t].pc = "idle"
    /\ s \in Handles
    /\ sub[s].mu = 0
    /\ sub' = [sub EXCEPT ![s].closed = TRUE, ![s].mu = t,
                          ![s].again = sub[s].closed]
    /\ th' = [th EXCEPT ![t] = [Idle EXCEPT !.pc = "unsub_send", !.s = s]]
    /\ UNCHANGED <<subs, subsNil, unsubs, closed, mu, chans, loops, panicked,
                   pubs, closeRet>>

\* s.Unsubscribe() -> s.c(), lines 88-93: s.mu.Lock(); if s.closed return;
\* s.closed = true.  The send of line 94 is closerSend.
Unsubscribe(t, s) ==
    /\ ~panicked
    /\ calls < MaxCalls
    /\ calls' = calls + 1
    /\ last' = NoRet
    /\ th[t].pc = "idle"
    /\ s \in Handles
    /\ sub[s].mu = 0
    /\ IF sub[s].closed
       THEN /\ sub' = [sub EXCEPT ![s].uret = TRUE, ![s].again = TRUE]
            /\ th' = [th EXCEPT ![t] = Idle]
       ELSE /\ sub' = [sub EXCEPT ![s].closed = TRUE, ![s].mu = t]
            /\ th' = [th EXCEPT ![t] = [Idle EXCEPT !.pc = "unsub_send", !.s = s]]
    /\ UNCHANGED <<subs, subsNil, unsubs, closed, mu, chans, loops, panicked,
                   pubs, closeRet>>

\* line 94: p.unsubs <- s.ev, then the deferred s.mu.Unlock() and the return
\* to the caller (a client, or the loop of Close).  A send on a closed
\* channel panics; a send on a full channel blocks.
closerSend(t) ==
    /\ ~panicked
    /\ UNCHANGED calls
    /\ last' = NoRet
    /\ th[t].pc \in {"unsub_send", "close_send"}
    /\ unsubs # 0
    /\ IF chans[unsubs].closed
       THEN /\ panicked' = TRUE
            /\ UNCHANGED <<chans, sub, th>>
       ELSE /\ Len(chans[unsubs].buf) < UnsubsCap
            /\ chans' = [chans EXCEPT ![unsubs].buf = ChanPush(@, th[t].s)]
            /\ sub' = [sub EXCEPT
                         ![th[t].s].mu = 0,
                         ![th[t].s].reqs = @ + 1,
                         ![th[t].s].uret = (@ \/ th[t].pc = "unsub_send")]
            /\ th' = [th EXCEPT ![t] =
                         IF th[t].pc = "unsub_send" THEN Idle
                         ELSE [Idle EXCEPT !.pc = "close_iter", !.i = th[t].i + 1]]
            /\ UNCHANGED panicked
    /\ UNCHANGED <<subs, subsNil, unsubs, closed, mu, loops, pubs, closeRet>>

\* ----------------------------------------------------------------- Close
\* lines 108-112: p.mu.Lock(); if p.subs == nil { return }
Close(t) ==
    /\ ~panicked
    /\ calls < MaxCalls
    /\ calls' = calls + 1
    /\ th[t].pc = "idle"
    /\ mu = 0
    /\ IF subsNil
       THEN /\ th' = [th EXCEPT ![t] = Idle]
            /\ closeRet' = TRUE
            /\ last' = Ret("Close", "nil", 0)
            /\ UNCHANGED mu
       ELSE /\ th' = [th EXCEPT ![t] = [Idle EXCEPT !.pc = "close_iter", !.i = 1]]
            /\ mu' = t
            /\ last' = NoRet
            /\ UNCHANGED closeRet
    /\ UNCHANGED <<subs, subsNil, unsubs, closed, chans, loops, sub, panicked, pubs>>

\* lines 113-114 with 88-93: sub.Unsubscribe() for the next sub of p.subs
CloseUnsubscribe(t) ==
    /\ ~panicked
    /\ UNCHANGED calls
    /\ last' = NoRet
    /\ th[t].pc = "close_iter"
    /\ th[t].i <= Len(subs)
    /\ LET s == subs[th[t].i] IN
       /\ sub[s].mu = 0
       /\ IF sub[s].closed
          THEN /\ th' = [th EXCEPT ![t].i = @ + 1]
               /\ UNCHANGED sub
          ELSE /\ sub' = [sub EXCEPT ![s].closed = TRUE, ![s].mu = t]
               /\ th' = [th EXCEPT ![t].pc = "close_send", ![t].s = s]
    /\ UNCHANGED <<subs, subsNil, unsubs, closed, mu, chans, loops, panicked,
                   pubs, closeRet>>

\* lines 116-121: p.subs = nil; close(p.unsubs); p.closed = true; unlock.
\* close of a closed channel panics.
CloseFinish(t) ==
    /\ ~panicked
    /\ UNCHANGED calls
    /\ th[t].pc = "close_iter"
    /\ th[t].i > Len(subs)
    /\ subs' = <<>>
    /\ subsNil' = TRUE
    /\ IF unsubs # 0 /\ chans[unsubs].closed
       THEN /\ panicked' = TRUE
            /\ last' = NoRet
            /\ UNCHANGED <<chans, closed, mu, th, closeRet>>
       ELSE /\ chans' = IF unsubs # 0
                        THEN [chans EXCEPT ![unsubs].closed = TRUE] ELSE chans
            /\ closed' = TRUE
            /\ mu' = 0
            /\ th' = [th EXCEPT ![t] = Idle]
            /\ closeRet' = TRUE
            /\ last' = Ret("Close", "nil", 0)
            /\ UNCHANGED panicked
    /\ UNCHANGED <<unsubs, loops, sub, pubs>>

\* --------------------------------------------------------------- Publish
\* lines 127-129: if p.closed { return ErrClosed }; the value of this call
\* is the call's number
Publish(t) ==
    /\ ~panicked
    /\ calls < MaxCalls
    /\ calls' = calls + 1
    /\ th[t].pc = "idle"
    /\ IF closed
       THEN /\ last' = Ret("Publish", "ErrClosed", 0)
            /\ th' = [th EXCEPT ![t] = Idle]
            /\ UNCHANGED pubs
       ELSE /\ Len(pubs) < MaxPub
            /\ last' = NoRet
            /\ pubs' = Append(pubs, [by |-> t, n |-> -1, done |-> FALSE])
            /\ th' = [th EXCEPT ![t] = [Idle EXCEPT
                         !.pc = "pub_lock",
                         !.v = Len(pubs) + 1,
                         !.live = {s \in Handles : ~sub[s].closed},
                         !.unsub = {s \in Handles : sub[s].uret},
                         !.after = closeRet]]
    /\ UNCHANGED <<subs, subsNil, unsubs, closed, mu, chans, loops, sub, panicked,
                   closeRet>>

\* a Publish that iterates without waiting for p.mu
PublishLockFree(t) ==
    /\ ~panicked
    /\ UNCHANGED calls
    /\ last' = NoRet
    /\ th[t].pc = "pub_lock"
    /\ mu' = t
    /\ th' = [th EXCEPT ![t].pc = "pub_send", ![t].i = 1]
    /\ pubs' = [pubs EXCEPT ![th[t].v].n = Len(subs)]
    /\ UNCHANGED <<subs, subsNil, unsubs, closed, chans, loops, sub, panicked,
                   closeRet>>

\* line 130: p.mu.Lock(), and the range expression p.subs of line 132
PublishLock(t) ==
    /\ ~panicked
    /\ UNCHANGED calls
    /\ last' = NoRet
    /\ th[t].pc = "pub_lock"
    /\ mu = 0
    /\ mu' = t
    /\ th' = [th EXCEPT ![t].pc = "pub_send", ![t].i = 1]
    /\ pubs' = [pubs EXCEPT ![th[t].v].n = Len(subs)]
    /\ UNCHANGED <<subs, subsNil, unsubs, closed, chans, loops, sub, panicked,
                   closeRet>>

\* sub.ev <- v on an unbuffered channel: the receiver takes it in the same step
SendUnbuffered(r, v) == [r EXCEPT !.worker = v, !.sent = Append(@, v)]

\* a buffer that hands out the newest value first
SendBufferedFront(r, v) == [r EXCEPT !.ev = <<v>> \o @, !.sent = Append(@, v)]

\* sub.ev <- v on a buffered channel: the value is queued behind the others
SendBuffered(r, v) == [r EXCEPT !.ev = Append(@, v), !.sent = Append(@, v)]

\* sub.ev <- v can proceed
CanSend(r) == IF r.cap = 0 THEN r.worker = 0 ELSE Len(r.ev) < r.cap

\* a send that gives up instead of blocking:
\* select { case sub.ev <- v: default: }
PublishSendNonBlocking(t) ==
    /\ ~panicked
    /\ UNCHANGED calls
    /\ last' = NoRet
    /\ th[t].pc = "pub_send"
    /\ th[t].i <= Len(subs)
    /\ LET s == subs[th[t].i] IN
       sub' = IF ~CanSend(sub[s]) THEN sub
              ELSE [sub EXCEPT ![s] = IF sub[s].cap = 0
                                      THEN SendUnbuffered(sub[s], th[t].v)
                                      ELSE SendBuffered(sub[s], th[t].v)]
    /\ th' = [th EXCEPT ![t].i = @ + 1]
    /\ UNCHANGED <<subs, subsNil, unsubs, closed, mu, chans, loops, panicked,
                   pubs, closeRet>>

\* line 133: sub.ev <- v for the next sub of p.subs
PublishSend(t) ==
    /\ ~panicked
    /\ UNCHANGED calls
    /\ last' = NoRet
    /\ th[t].pc = "pub_send"
    /\ th[t].i <= Len(subs)
    /\ LET s == subs[th[t].i] IN
       /\ CanSend(sub[s])
       /\ sub' = [sub EXCEPT ![s] = IF sub[s].cap = 0
                                    THEN SendUnbuffered(sub[s], th[t].v)
                                    ELSE SendBuffered(sub[s], th[t].v)]
    /\ th' = [th EXCEPT ![t].i = @ + 1]
    /\ UNCHANGED <<subs, subsNil, unsubs, closed, mu, chans, loops, panicked,
                   pubs, closeRet>>

\* lines 135 and 131: return nil, the deferred p.mu.Unlock()
PublishReturn(t) ==
    /\ ~panicked
    /\ UNCHANGED calls
    /\ last' = Ret("Publish", "nil", 0)
    /\ th[t].pc = "pub_send"
    /\ th[t].i > Len(subs)
    /\ mu' = 0
    /\ pubs' = [pubs EXCEPT ![th[t].v].done = TRUE]
    /\ th' = [th EXCEPT ![t] = Idle]
    /\ UNCHANGED <<subs, subsNil, unsubs, closed, chans, loops, sub, panicked,
                   closeRet>>

\* ------------------------------------------------------- SubscriberCount
\* lines 139-143: p.mu.Lock(); return len(p.subs)
SubscriberCount(t) ==
    /\ ~panicked
    /\ calls < MaxCalls
    /\ calls' = calls + 1
    /\ last' = Ret("SubscriberCount", "nil", Len(subs))
    /\ th[t].pc = "idle"
    /\ mu = 0
    /\ UNCHANGED th
    /\ UNCHANGED <<subs, subsNil, unsubs, closed, mu, chans, loops, sub, panicked,
                   pubs, closeRet>>

Next ==
    \/ \E t \in Threads, n \in 0..MaxCap : Subscribe(t, n)
    \/ \E t \in Threads : SubscribeListen(t)
    \/ \E t \in Threads : SubscribeAppend(t)
    \/ \E t \in Threads, s \in DOMAIN sub : Unsubscribe(t, s)
    \/ \E t \in Threads : closerSend(t)
    \/ \E t \in Threads : Close(t)
    \/ \E t \in Threads : CloseUnsubscribe(t)
    \/ \E t \in Threads : CloseFinish(t)
    \/ \E t \in Threads : Publish(t)
    \/ \E t \in Threads : PublishLock(t)
    \/ \E t \in Threads : PublishSend(t)
    \/ \E t \in Threads : PublishReturn(t)
    \/ \E t \in Threads : SubscriberCount(t)
    \/ \E s \in DOMAIN sub : subscriberRecv(s)
    \/ \E s \in DOMAIN sub : subscriberHandle(s)
    \/ \E k \in DOMAIN loops : listenStart(k)
    \/ \E k \in DOMAIN loops : listenRecv(k)
    \/ \E k \in DOMAIN loops : listenRemove(k)
    \/ \E k \in DOMAIN loops : listenExit(k)

Spec == Init /\ [][Next]_vars

\* The Go scheduler runs every goroutine that can take a step: the delivery
\* goroutines, the deregistration goroutines, and a client inside a call.
\* Whether a client makes another call is up to the client.
Fairness ==
    /\ \A s \in 1..MaxSubs :
          /\ WF_vars(s \in DOMAIN sub /\ subscriberRecv(s))
          /\ WF_vars(s \in DOMAIN sub /\ subscriberHandle(s))
    /\ \A k \in Threads :
          WF_vars(k \in DOMAIN loops /\
                  (listenStart(k) \/ listenRecv(k) \/ listenRemove(k)
                     \/ listenExit(k)))
    /\ \A t \in Threads :
          WF_vars(SubscribeListen(t) \/ SubscribeAppend(t) \/ closerSend(t)
                    \/ CloseUnsubscribe(t) \/ CloseFinish(t) \/ PublishLock(t)
                    \/ PublishSend(t) \/ PublishReturn(t))

FairSpec == Spec /\ Fairness

\* ---------------------------------------------------------------- claims
\* the subscribers made so far
Subs == DOMAIN sub

\* how often v occurs in a sequence
Occ(seq, v) == Cardinality({i \in DOMAIN seq : seq[i] = v})

\* a client goroutine is inside Publish, past the test of p.closed
InPublish(t) == th[t].pc \in {"pub_lock", "pub_send"}

\* a client goroutine is inside Close, past the test of p.subs
InClose(t) == th[t].pc \in {"close_iter", "close_send"}

\* C1: once a Close call has returned, every Publish call that starts
\* afterwards returns ErrClosed: it never gets past the test of p.closed, so
\* it sends nothing -- also on an engine Subscribe was never called on.
C1_PublishAfterCloseFails ==
    \A t \in Threads : ~(InPublish(t) /\ th[t].after)

\* C2: whenever p.closed is true the live set is empty and SubscriberCount
\* returns 0, also after Subscribe calls on the closed engine.
C2_ClosedIsEmpty ==
    closed => /\ Len(subs) = 0
              /\ last.op = "SubscriberCount" => last.n = 0

\* C3: once s.Unsubscribe() has returned, no Publish call that starts
\* afterwards sends its value to s.ev.
C3_NoSendAfterUnsubscribe ==
    \A t \in Threads :
        th[t].pc = "pub_send" =>
            \A j \in 1..(th[t].i - 1) : subs[j] \notin th[t].unsub

\* the value of the Publish call that goroutine t is in has been sent to s.ev
SentTo(t, s) == Occ(sub[s].sent, th[t].v) > 0

\* C4, the sends: a Publish call on an open engine sends its value to every
\* subscription of the live set in turn, and when it is about to return nil
\* every subscription that was subscribed when the call started and has not
\* been unsubscribed since has been sent the value.
C4_Sends ==
    \A t \in Threads :
        th[t].pc = "pub_send" =>
            /\ \A j \in 1..(th[t].i - 1) : SentTo(t, subs[j])
            /\ th[t].i > Len(subs) =>
                  \A s \in th[t].live : sub[s].closed \/ SentTo(t, s)

\* C4, the delivery: every value sent to a channel s.ev has been handed to
\* s.handler, or the engine is open no more.
C4_AllDelivered ==
    closed \/ \A s \in Subs, v \in DOMAIN pubs :
                  Occ(sub[s].sent, v) > 0 => Occ(sub[s].got, v) > 0

\* C4: for an open engine every live subscription receives every Publish:
\* a Publish(v) that returns nil has sent v to every subscription of the live
\* set, and under fair scheduling each of their handlers is eventually
\* invoked with v (again and again nothing sent is left undelivered).
C4_LiveSubscriptionsReceive == []C4_Sends /\ []<>C4_AllDelivered

\* C4 witness: a Publish call is about to return nil having sent its value
\* to two live subscriptions, one of them subscribed and never unsubscribed.
C4_Witness ==
    \E t \in Threads :
        /\ th[t].pc = "pub_send"
        /\ th[t].i > Len(subs)
        /\ Len(subs) = 2
        /\ \E s \in th[t].live : ~sub[s].closed /\ SentTo(t, s)

\* the shared counter of handlers that count their invocations with v
Counter(v) ==
    Cardinality({x \in Subs \X (1..MaxPub) :
                    x[2] \in DOMAIN sub[x[1]].got /\ sub[x[1]].got[x[2]] = v})

\* C5, no duplicates: one Publish call sends its value to each subscription
\* at most once, and the counter never exceeds N, the number of live
\* subscriptions the call found.
C5_AtMostOnce ==
    \A v \in DOMAIN pubs :
        /\ \A s \in Subs : Occ(sub[s].sent, v) <= 1
        /\ Counter(v) <= IF pubs[v].n < 0 THEN 0 ELSE pubs[v].n

\* C5, nothing dropped: the counter of every Publish call that returned nil
\* equals N, or the engine is open no more.
C5_AllCounted ==
    closed \/ \A v \in DOMAIN pubs : pubs[v].done => Counter(v) = pubs[v].n

\* C5: within one Publish call each live subscription is sent the value at
\* most once; with N live subscriptions the counter never exceeds N and
\* eventually equals N.
C5_NoDuplicateDelivery == []C5_AtMostOnce /\ []<>C5_AllCounted

\* C5 witness: a Publish call found two live subscriptions, returned, and the
\* counter of its value stands at two.
C5_Witness ==
    \E v \in DOMAIN pubs : pubs[v].done /\ pubs[v].n = 2 /\ Counter(v) = 2

\* the subscriptions publisher.listen has removed from p.subs
Applied == {s \in Subs : sub[s].removed > 0}

\* C6: on an open engine SubscriberCount returns the number of completed
\* Subscribe calls minus the number of subscriptions whose deregistration
\* request publisher.listen has applied; the count is 0 when Close returns.
C6_SubscriberCountAccounting ==
    /\ ~closed => Len(subs) = Cardinality(Handles) - Cardinality(Applied)
    /\ (~closed /\ last.op = "SubscriberCount") =>
           last.n = Cardinality(Handles) - Cardinality(Applied)
    /\ last.op = "Close" => Len(subs) = 0

\* C6 witness: two Subscribe calls returned, one subscription was removed by
\* publisher.listen, and SubscriberCount has just returned 1.
C6_Witness ==
    /\ ~closed
    /\ last.op = "SubscriberCount"
    /\ last.n = 1
    /\ Cardinality(Handles) = 2
    /\ Cardinality(Applied) = 1

\* the request of s waits in a deregistration channel or is held by a
\* publisher.listen goroutine that has not applied it yet
Pending(s) ==
    \/ \E c \in DOMAIN chans : s \in Range(chans[c].buf)
    \/ \E k \in DOMAIN loops : loops[k].c = s

\* C7: however often Unsubscribe is called on a subscription, one after the
\* other or concurrently, at most one request carrying its channel is sent
\* to p.unsubs; once publisher.listen has applied it on an open engine the
\* subscription has been removed from the live set exactly once, never twice.
C7_UnsubscribeIdempotent ==
    \A s \in Subs :
        /\ sub[s].reqs <= 1
        /\ sub[s].removed <= sub[s].reqs
        /\ (~closed /\ sub[s].reqs = 1 /\ ~Pending(s)) => sub[s].removed = 1

\* C7 witness: Unsubscribe was called again on an unsubscribed subscription
\* and returned; one request was sent and applied.
C7_Witness ==
    \E s \in Subs : sub[s].again /\ sub[s].reqs = 1 /\ sub[s].removed = 1

\* C8: a Close call on an engine that is closed already is a no-op: it
\* returns at the test of p.subs, sends nothing and closes nothing.
C8_SecondCloseIsNoop ==
    \A t \in Threads : closed => ~InClose(t)

\* what the delivery goroutine of s holds or has handled, then what waits in
\* s.ev: the values in the order they leave the channel
Received(s) ==
    sub[s].got \o (IF sub[s].worker > 0 THEN <<sub[s].worker>> ELSE <<>>)

\* C9: two Publish calls of one goroutine reach the handler of a
\* subscription in the order they were issued, for every channel capacity:
\* the handler is invoked in the order the values were sent to s.ev.
C9_PerSubscriptionFifo ==
    \A s \in Subs :
        /\ sub[s].sent = Received(s) \o sub[s].ev
        /\ \A i, j \in DOMAIN sub[s].got :
               (i < j /\ pubs[sub[s].got[i]].by = pubs[sub[s].got[j]].by)
                   => sub[s].got[i] < sub[s].got[j]

\* C9 witness: one goroutine published twice and the handler of a buffered
\* subscription has been invoked with both values.
C9_Witness ==
    \E s \in Subs :
        /\ sub[s].opt > 0
        /\ Len(sub[s].got) = 2
        /\ pubs[1].by = pubs[2].by

\* C10: a subscription made with ChannelCapacity(n) queues up to n values:
\* a send to it can proceed exactly when fewer than n values wait, whatever
\* its delivery goroutine does; with n = 0 a send can proceed exactly when
\* the delivery goroutine is receiving, and every value sent has been
\* received by it.
C10_Buffering ==
    \A s \in Subs :
        /\ Len(sub[s].ev) <= sub[s].opt
        /\ sub[s].opt = 0 => sub[s].sent = Received(s)
        /\ \A t \in Threads :
               (/\ ~panicked
                /\ th[t].pc = "pub_send"
                /\ th[t].i <= Len(subs)
                /\ subs[th[t].i] = s)
               => (ENABLED PublishSend(t)
                     <=> IF sub[s].opt = 0 THEN sub[s].worker = 0
                         ELSE Len(sub[s].ev) < sub[s].opt)

\* C10 witness: two Publish calls returned with both values waiting in the
\* channel of a ChannelCapacity(2) subscription whose delivery goroutine has
\* not taken a step.
C10_Witness ==
    \E s \in Subs :
        /\ sub[s].opt = 2
        /\ Len(sub[s].ev) = 2
        /\ sub[s].got = <<>>
        /\ sub[s].worker = 0
        /\ \A v \in DOMAIN pubs : pubs[v].done

\* C11: no operation panics: no closer sends on a closed p.unsubs and no
\* Close closes p.unsubs a second time, in any interleaving.
C11_NeverPanics == ~panicked

\* ------------------------------------------- Close with many subscriptions
\* subscriptions live when Close is called: up to UnsubsCap + 2
MaxLive == 7

\* the publisher after n Subscribe calls made one after the other on a new
\* publisher, each returned (lines 73-102): one deregistration channel, its
\* publisher.listen goroutine started by the first call, n subscribers with
\* unbuffered channels, their delivery goroutines waiting.  calls counts the
\* calls made from here on.
Subscribed(n) ==
    /\ subs = [i \in 1..n |-> i]
    /\ subsNil = FALSE
    /\ unsubs = 1
    /\ closed = FALSE
    /\ mu = 0
    /\ chans = <<[buf |-> <<>>, closed |-> FALSE]>>
    /\ loops = <<[pc |-> "start", ch |-> 0, c |-> 0]>>
    /\ sub = [i \in 1..n |-> [opt |-> 0, cap |-> 0, ev |-> <<>>,
                              closed |-> FALSE, mu |-> 0, worker |-> 0,
                              got |-> <<>>, sent |-> <<>>, reg |-> TRUE,
                              reqs |-> 0, removed |-> 0, uret |-> FALSE,
                              again |-> FALSE]]
    /\ th = [t \in Threads |-> Idle]
    /\ panicked = FALSE
    /\ pubs = <<>>
    /\ closeRet = FALSE
    /\ calls = 0
    /\ last = NoRet

CloseInit == \E n \in 1..MaxLive : Subscribed(n)

\* Close calls and the deregistration goroutine, no other operation
CloseNext ==
    \/ \E t \in Threads : Close(t)
    \/ \E t \in Threads : CloseUnsubscribe(t)
    \/ \E t \in Threads : closerSend(t)
    \/ \E t \in Threads : CloseFinish(t)
    \/ \E k \in DOMAIN loops : listenStart(k)
    \/ \E k \in DOMAIN loops : listenRecv(k)
    \/ \E k \in DOMAIN loops : listenRemove(k)
    \/ \E k \in DOMAIN loops : listenExit(k)

\* the scheduler runs the deregistration goroutine and a client inside Close
CloseFairness ==
    /\ WF_vars(\E k \in DOMAIN loops :
                  listenStart(k) \/ listenRecv(k) \/ listenRemove(k)
                     \/ listenExit(k))
    /\ \A t \in Threads :
          WF_vars(CloseUnsubscribe(t) \/ closerSend(t) \/ CloseFinish(t))

CloseSpec == CloseInit /\ [][CloseNext]_vars /\ CloseFairness

\* C12: a Close call in progress is never stuck: while a client is inside
\* Close some goroutine can take a step, whatever the number of live
\* subscriptions, so that under fair scheduling the call returns.
C12_CloseNeverStuck ==
    (\E t \in Threads : InClose(t)) => ENABLED CloseNext

\* close(s.ev) occurs nowhere in the package: no step of any goroutine
\* closes the delivery channel of a subscriber
evClosed(s) == FALSE

\* subscriber.listen has left its range loop (lines 30-32): s.ev is closed
\* and drained
listenReturned(s) == evClosed(s) /\ sub[s].ev = <<>> /\ sub[s].worker = 0

\* C13: after the deregistration request of a subscription has been sent (by
\* Unsubscribe, or by Close on its behalf) its delivery channel is eventually
\* closed and its delivery goroutine eventually returns.
C13_WorkerShutdown ==
    \A s \in 1..MaxSubs :
        (s \in Subs /\ sub[s].reqs > 0) ~> (s \in Subs /\ listenReturned(s))

\* a publisher.listen goroutine receives from channel c, or is about to
\* evaluate its range expression while p.unsubs is c
Consumed(c) ==
    \E k \in DOMAIN loops :
        \/ loops[k].pc \in {"recv", "lock"} /\ loops[k].ch = c
        \/ loops[k].pc = "start" /\ unsubs = c

\* C14: on an open engine every deregistration request is eventually applied
\* by publisher.listen; so a request never waits in a channel that no
\* publisher.listen goroutine receives from or will receive from.
C14_RequestsApplied ==
    \A c \in DOMAIN chans : chans[c].buf # <<>> => Consumed(c)

\* C15: Publish reads p.closed consistently with p.subs: a Publish call
\* never returns nil on a closed engine, having iterated the live set that
\* Close cleared.
C15_PublishAtomicWithClose ==
    (last.op = "Publish" /\ last.err = "nil") => ~closed

\* C16: over the lifetime of a publisher at most one deregistration channel
\* is made and at most one publisher.listen goroutine is started, also when
\* two first Subscribe calls run concurrently.
C16_SingleLoop == Len(chans) <= 1 /\ Len(loops) <= 1

\* s has been removed from the live set: publisher.listen applied its
\* request, or Close cleared p.subs
Removed(s) == sub[s].reg /\ (sub[s].removed > 0 \/ s \notin Range(subs))

\* C17: once a subscription has been removed from the live set, by
\* publisher.listen or by Close, no step of any Publish call sends a value
\* to its delivery channel.
C17_NoSendAfterRemoval ==
    [][\A s \in Subs : Removed(s) => sub'[s].sent = sub[s].sent]_vars

\* C17 witness: a Publish call has sent its value to every subscription of
\* p.subs, and not to a subscription that publisher.listen had removed.
C17_Witness ==
    \E s \in Subs, t \in Threads :
        /\ sub[s].removed > 0
        /\ th[t].pc = "pub_send"
        /\ th[t].i > Len(subs)
        /\ Len(subs) >= 1
        /\ Occ(sub[s].sent, th[t].v) = 0

\* a client goroutine is inside the loop of Publish, lines 132-134
Sending(t) == th[t].pc = "pub_send"

\* the place of the first v in a sequence
Pos(seq, v) == CHOOSE i \in DOMAIN seq : seq[i] = v /\ \A j \in 1..(i - 1) : seq[j] # v

\* at most one Publish call is inside its loop, and it holds p.mu; two
\* subscriptions that were sent the same two values were sent them in the
\* same order
C18_OneAtATime ==
    /\ \A t \in Threads : Sending(t) =>
           /\ mu = t
           /\ \A u \in Threads \ {t} : ~Sending(u)
    /\ \A r, s \in Subs : \A v, w \in Range(sub[r].sent) \cap Range(sub[s].sent) :
           Pos(sub[r].sent, v) < Pos(sub[r].sent, w)
               => Pos(sub[s].sent, v) < Pos(sub[s].sent, w)

\* C18: Publish calls are serialized by p.mu: the sends of one call are over
\* before a send of another begins, every subscription that gets two values
\* gets them in the same order, and no step changes p.subs while a Publish
\* call is inside its loop.
C18_PublishSerialized ==
    /\ []C18_OneAtATime
    /\ [][(\E t \in Threads : Sending(t)) => subs' = subs]_vars

\* C18 witness: two concurrent Publish calls with two live subscriptions:
\* one has sent to the first subscription, the other waits for p.mu.
C18_Witness ==
    \E t, u \in Threads :
        /\ t # u
        /\ Sending(t)
        /\ th[t].i > 1
        /\ th[u].pc = "pub_lock"
        /\ Len(subs) = 2

\* ------------------------------------ the minimal variant, pubsub/pubsub.go
\* Its publisher has subs, unsubs and mu; its subscription has done, ev and
\* handler.  p.unsubs is never assigned: it stays nil (0).  The channel done
\* of a subscription is named by the subscription's number, like its ev.

\* NewPublisher, lines 57-61: &publisher[T]{} and go p.listen(), which waits
\* in its select for a value from the nil p.unsubs (lines 43-44)
NewPublisher ==
    /\ subs = <<>>
    /\ subsNil = TRUE
    /\ unsubs = 0
    /\ closed = FALSE
    /\ mu = 0
    /\ chans = <<>>
    /\ loops = <<[pc |-> "recv", ch |-> 0, c |-> 0]>>
    /\ sub = <<>>
    /\ th = [t \in Threads |-> Idle]
    /\ panicked = FALSE
    /\ pubs = <<>>
    /\ closeRet = FALSE
    /\ calls = 0
    /\ last = NoRet

\* the goroutines receiving from the channel done of s: none.  The only
\* receive of the package is <-p.unsubs in publisher.listen (line 44), from
\* a chan chan struct{}, which s.done, a chan struct{}, cannot be.
doneReceivers(s) == {}

\* Subscribe, lines 63-70: done and ev are unbuffered, go s.listen(); the
\* append under p.mu (lines 71-74) is SubscribeAppend
MinSubscribe(t) ==
    /\ calls < MaxCalls
    /\ calls' = calls + 1
    /\ last' = NoRet
    /\ th[t].pc = "idle"
    /\ Len(sub) < MaxSubs
    /\ sub' = Append(sub, [opt |-> 0, cap |-> 0, ev |-> <<>>,
                           closed |-> FALSE, mu |-> 0, worker |-> 0,
                           got |-> <<>>, sent |-> <<>>, reg |-> FALSE,
                           reqs |-> 0, removed |-> 0, uret |-> FALSE,
                           again |-> FALSE])
    /\ th' = [th EXCEPT ![t] = [Idle EXCEPT !.pc = "sub_lock",
                                            !.s = Len(sub) + 1]]
    /\ UNCHANGED <<subs, subsNil, unsubs, closed, mu, chans, loops, panicked,
                   pubs, closeRet>>

\* Unsubscribe, lines 23-28: s.done is not nil, so the call goes on to
\* s.done <- struct{}{}, a send on an unbuffered channel, which waits for a
\* receiver of s.done
MinUnsubscribe(t, s) ==
    /\ calls < MaxCalls
    /\ calls' = calls + 1
    /\ last' = NoRet
    /\ th[t].pc = "idle"
    /\ s \in Handles
    /\ th' = [th EXCEPT ![t] = [Idle EXCEPT !.pc = "done_send", !.s = s]]
    /\ UNCHANGED <<subs, subsNil, unsubs, closed, mu, chans, loops, sub,
                   panicked, pubs, closeRet>>

\* Close, lines 76-80: without p.mu, sub.Unsubscribe() for each sub of
\* p.subs; it returns at once when p.subs is empty
MinClose(t) ==
    /\ calls < MaxCalls
    /\ calls' = calls + 1
    /\ th[t].pc = "idle"
    /\ IF Len(subs) = 0
       THEN /\ th' = [th EXCEPT ![t] = Idle]
            /\ closeRet' = TRUE
            /\ last' = Ret("Close", "nil", 0)
       ELSE /\ th' = [th EXCEPT ![t] = [Idle EXCEPT !.pc = "done_send",
                                                    !.s = subs[1], !.i = 1]]
            /\ last' = NoRet
            /\ UNCHANGED closeRet
    /\ UNCHANGED <<subs, subsNil, unsubs, closed, mu, chans, loops, sub,
                   panicked, pubs>>

\* Publish, lines 81-87: no test of a closed flag; the lock, the loop and the
\* return are PublishLock, PublishSend and PublishReturn
MinPublish(t) ==
    /\ calls < MaxCalls
    /\ calls' = calls + 1
    /\ last' = NoRet
    /\ th[t].pc = "idle"
    /\ Len(pubs) < MaxPub
    /\ pubs' = Append(pubs, [by |-> t, n |-> -1, done |-> FALSE])
    /\ th' = [th EXCEPT ![t] = [Idle EXCEPT
                 !.pc = "pub_lock",
                 !.v = Len(pubs) + 1,
                 !.live = Handles,
                 !.after = closeRet]]
    /\ UNCHANGED <<subs, subsNil, unsubs, closed, mu, chans, loops, sub,
                   panicked, closeRet>>

\* the channels are unbuffered, so a delivery goroutine receives in the step
\* of the send (PublishSend); p.unsubs is nil, so publisher.listen never
\* receives and never removes
MinNext ==
    \/ \E t \in Threads : MinSubscribe(t)
    \/ \E t \in Threads : SubscribeAppend(t)
    \/ \E t \in Threads, s \in DOMAIN sub : MinUnsubscribe(t, s)
    \/ \E t \in Threads : MinClose(t)
    \/ \E t \in Threads : MinPublish(t)
    \/ \E t \in Threads : PublishLock(t)
    \/ \E t \in Threads : PublishSend(t)
    \/ \E t \in Threads : PublishReturn(t)
    \/ \E s \in DOMAIN sub : subscriberHandle(s)

MinFairness ==
    /\ \A s \in 1..MaxSubs : WF_vars(s \in DOMAIN sub /\ subscriberHandle(s))
    /\ \A t \in Threads :
          WF_vars(SubscribeAppend(t) \/ PublishLock(t) \/ PublishSend(t)
                    \/ PublishReturn(t))

MinSpec == NewPublisher /\ [][MinNext]_vars /\ MinFairness

\* C19: in the minimal variant an Unsubscribe call, made by a client or by
\* Close for a subscription of p.subs, returns: while it waits at its send
\* on s.done some goroutine receives from s.done.
C19_MinUnsubscribeReturns ==
    \A t \in Threads :
        th[t].pc = "done_send" => doneReceivers(th[t].s) # {}

\* the sequence ss without its i-th element
Without(ss, i) ==
    [j \in 1..(Len(ss) - 1) |-> IF j < i THEN ss[j] ELSE ss[j + 1]]

\* C20: the step of publisher.listen for a received channel c removes from
\* p.subs the first subscriber whose channel is c and nothing else, keeping
\* the others in their order; when no subscriber matches it leaves p.subs as
\* it is.  It never changes p.closed.
C20_ListenFrame ==
    [][\A k \in DOMAIN loops :
          (loops[k].pc = "lock" /\ loops'[k].pc = "recv") =>
              /\ closed' = closed
              /\ IF loops[k].c \in Range(subs)
                 THEN \E i \in DOMAIN subs :
                          /\ subs[i] = loops[k].c
                          /\ \A j \in 1..(i - 1) : subs[j] # loops[k].c
                          /\ subs' = Without(subs, i)
                 ELSE subs' = subs]_vars

\* C20 witness: publisher.listen has removed the first of two subscribers
\* and waits for the next request; the second is still in p.subs.
C20_Witness ==
    \E s \in Subs, k \in DOMAIN loops :
        /\ ~closed
        /\ loops[k].pc = "recv"
        /\ sub[s].removed = 1
        /\ Cardinality(Handles) = 2
        /\ Len(subs) = 1
        /\ subs[1] > s

====
